---- MODULE Spec2Model ----
(***************************************************************************)
(* Model of the Baba Jina Toys dashboard (src/app.py): the three loaders   *)
(* that normalise the spreadsheets, the four aggregates, the RFM           *)
(* segmentation and the page script that renders their results.            *)
(*                                                                         *)
(* Representation.                                                         *)
(*  - A DataFrame is [cols |-> set of column names, rows |-> sequence of   *)
(*    records]. The row order of a grouped frame is not modelled.          *)
(*  - A spreadsheet cell is [kind, n, t, s]: a number, a date, a text or a *)
(*    blank. A float is NaN or an integer: [ok, v].                        *)
(*  - A Timestamp is [y, m, d, h]; NaT is the all-zero record.             *)
(*  - utilization_pct is kept in tenths of a percent (65 is 6.5).          *)
(*  - A ratio (a mean, a percentage) is kept exact, as [num, den].         *)
(***************************************************************************)
EXTENDS Integers, Sequences, FiniteSets, TLC

VARIABLES
    pc,              \* position of the page script; "api" when functions are called directly
    sales_file,      \* the spreadsheet at sales_path
    suppliers_file,  \* the spreadsheet at suppliers_path
    rentals_file,    \* the spreadsheet at rentals_path
    sales_raw,       \* load_sales' result
    suppliers_raw,   \* load_suppliers' result
    rentals_raw,     \* load_rentals' result
    warnings,        \* what st.warning / st.error have reported
    year_sel,        \* the "Years (Actual)" multiselect
    cat_sel,         \* the "Product Categories" multiselect
    shown,           \* what each card of the page displays
    ret              \* the result of the last direct call of an aggregate

vars == <<pc, sales_file, suppliers_file, rentals_file, sales_raw, suppliers_raw,
          rentals_raw, warnings, year_sel, cat_sel, shown, ret>>

----------------------------------------------------------------------------
(* Values *)

NaN == [ok |-> FALSE, v |-> 0]
Num(n) == [ok |-> TRUE, v |-> n]

NaT == [y |-> 0, m |-> 0, d |-> 0, h |-> 0]
Stamp(y, m, d, h) == [y |-> y, m |-> m, d |-> d, h |-> h]

NumCell(n) == [kind |-> "num", n |-> n, t |-> NaT, s |-> ""]
DateCell(t) == [kind |-> "date", n |-> 0, t |-> t, s |-> ""]
TextCell(s) == [kind |-> "text", n |-> 0, t |-> NaT, s |-> s]
Blank == [kind |-> "blank", n |-> 0, t |-> NaT, s |-> ""]

EmptyFrame == [cols |-> {}, rows |-> <<>>]

\* DataFrame.empty: some axis has length zero.
IsEmpty(df) == df.cols = {} \/ Len(df.rows) = 0

Range(s) == {s[i] : i \in DOMAIN s}

RECURSIVE SetToSeq(_)
SetToSeq(S) ==
    IF S = {} THEN <<>>
    ELSE LET x == CHOOSE e \in S : TRUE IN <<x>> \o SetToSeq(S \ {x})

\* The sum of f over the set S.
RECURSIVE SumOver(_, _)
SumOver(S, f) ==
    IF S = {} THEN 0
    ELSE LET x == CHOOSE e \in S : TRUE IN f[x] + SumOver(S \ {x}, f)

\* All sequences over S of length at most n.
RECURSIVE SeqsUpTo(_, _)
SeqsUpTo(S, n) ==
    IF n = 0 THEN {<<>>}
    ELSE LET shorter == SeqsUpTo(S, n - 1)
         IN  shorter \cup {Append(q, x) : q \in {r \in shorter : Len(r) = n - 1}, x \in S}

----------------------------------------------------------------------------
(* Calendar *)

IsLeap(y) == (y % 4 = 0 /\ y % 100 # 0) \/ y % 400 = 0

\* Timestamp.days_in_month
DaysInMonth(y, m) ==
    IF m \in {4, 6, 9, 11} THEN 30
    ELSE IF m = 2 THEN (IF IsLeap(y) THEN 29 ELSE 28)
    ELSE 31

\* The order of Timestamps.
StampKey(t) == ((t.y * 13 + t.m) * 32 + t.d) * 24 + t.h
Before(a, b) == StampKey(a) < StampKey(b)

\* Timestamp.normalize(): midnight of the same day.
Normalize(t) == [t EXCEPT !.h = 0]

NextDay(t) ==
    IF t.d < DaysInMonth(t.y, t.m) THEN [t EXCEPT !.d = t.d + 1]
    ELSE IF t.m < 12 THEN [t EXCEPT !.m = t.m + 1, !.d = 1]
    ELSE [t EXCEPT !.y = t.y + 1, !.m = 1, !.d = 1]

\* A bug: the last day of the range is left out.
RECURSIVE DateRangeExclusive(_, _)
DateRangeExclusive(a, b) ==
    IF ~Before(a, b) THEN <<>> ELSE <<a>> \o DateRangeExclusive(NextDay(a), b)

\* pd.date_range(a, b, freq="D") for midnights a, b: every day from a to b.
RECURSIVE DateRange(_, _)
DateRange(a, b) ==
    IF Before(b, a) THEN <<>> ELSE <<a>> \o DateRange(NextDay(a), b)

\* .dt.to_period("M").dt.to_timestamp("M"): the last day of the month.
MonthEnd(t) == Stamp(t.y, t.m, DaysInMonth(t.y, t.m), 0)

----------------------------------------------------------------------------
(* Conversions of the loaders *)

\* pd.to_numeric(errors="coerce")
ToNumeric(c) == IF c.kind = "num" THEN Num(c.n) ELSE NaN

\* coerce_datetime: pd.to_datetime(errors="coerce")
coerce_datetime(c) == IF c.kind = "date" THEN c.t ELSE NaT

\* Series.astype(str): a blank cell becomes the text "nan".
AsStr(c) == IF c.kind = "text" THEN c.s ELSE "nan"

\* str(c).strip().lower() of a column name.
LowerName(c) ==
    CASE c = "Date" -> "date"
      [] c = "ORDER_DATE" -> "order_date"
      [] c = "Category" -> "category"
      [] c = "Customer_ID" -> "customer_id"
      [] c = "Total_Amount" -> "total_amount"
      [] c = "Quantity" -> "quantity"
      [] c = "Unit_Price" -> "unit_price"
      [] c = " Shop " -> "shop"
      [] c = "Supplier" -> "supplier"
      [] c = "Amount" -> "amount"
      [] c = "Year" -> "year"
      [] c = "Mascot" -> "mascot"
      [] c = "Start_Date" -> "start_date"
      [] c = "End_Date" -> "end_date"
      [] OTHER -> c

\* lower = {str(c).strip().lower(): c for c in df.columns}, then
\* _first_present(lower, keys): the column of the first key present, or "".
RECURSIVE first_present(_, _)
first_present(cols, keys) ==
    IF keys = <<>> THEN ""
    ELSE IF \E c \in cols : LowerName(c) = Head(keys)
         THEN CHOOSE c \in cols : LowerName(c) = Head(keys)
         ELSE first_present(cols, Tail(keys))

----------------------------------------------------------------------------
(* Spreadsheets *)

\* A path at which no file exists.
NoFile == [exists |-> FALSE, readable |-> FALSE, cols |-> {}, rows |-> <<>>]

\* A readable workbook: the columns and rows of its first sheet.
Sheet(cols, rows) == [exists |-> TRUE, readable |-> TRUE, cols |-> cols, rows |-> rows]

\* A file that pd.ExcelFile cannot open.
Corrupt == [exists |-> TRUE, readable |-> FALSE, cols |-> {}, rows |-> <<>>]

\* parse_excel_any_sheet: the first sheet, or st.error and an empty frame.
parse_excel_any_sheet(file) ==
    IF file.readable
    THEN [df |-> [cols |-> file.cols, rows |-> file.rows], warn |-> {}]
    ELSE [df |-> EmptyFrame, warn |-> {"error: could not load Excel file"}]

\* Series.dropna / DataFrame.dropna(subset=...) on the rows of a frame.
\* keep is the set of the positions of the rows that stay.
SelectRows(rows, keep) ==
    LET RECURSIVE Pick(_)
        Pick(i) == IF i > Len(rows) THEN <<>>
                   ELSE (IF i \in keep THEN <<rows[i]>> ELSE <<>>) \o Pick(i + 1)
    IN  Pick(1)

----------------------------------------------------------------------------
(* load_rentals *)

RentalsWarning == "warning: rentals file needs (Mascot, Start_Date, End_Date) columns"

load_rentals(file) ==
    LET p == parse_excel_any_sheet(file)
        df == p.df
        mascot_col == first_present(df.cols, <<"mascot", "mascot_name", "name">>)
        start_col == first_present(df.cols, <<"start_date", "start", "from">>)
        end_col == first_present(df.cols, <<"end_date", "end", "to">>)
        out == [i \in DOMAIN df.rows |->
                   [mascot |-> AsStr(df.rows[i][mascot_col]),
                    start |-> coerce_datetime(df.rows[i][start_col]),
                    end |-> coerce_datetime(df.rows[i][end_col])]]
        dated == {i \in DOMAIN out : out[i].start # NaT /\ out[i].end # NaT}
    IN  IF IsEmpty(df) THEN [df |-> df, warn |-> p.warn]
        ELSE IF mascot_col = "" \/ start_col = "" \/ end_col = ""
        THEN [df |-> EmptyFrame, warn |-> {RentalsWarning}]
        ELSE [df |-> [cols |-> {"mascot", "start", "end"}, rows |-> SelectRows(out, dated)],
              warn |-> {}]

----------------------------------------------------------------------------
(* rentals_utilization_monthly *)

\* The days of one booking: nothing for a missing or reversed interval,
\* else every day from start.normalize() to end.normalize().
BookingDays(r) ==
    IF r.start = NaT \/ r.end = NaT \/ Before(r.end, r.start) THEN <<>>
    ELSE LET days == DateRange(Normalize(r.start), Normalize(r.end))
         IN  [i \in DOMAIN days |-> [date |-> days[i], mascot |-> r.mascot]]

RECURSIVE Bookings(_)
Bookings(rows) ==
    IF rows = <<>> THEN <<>> ELSE BookingDays(Head(rows)) \o Bookings(Tail(rows))

\* A bug: overlapping bookings are not de-duplicated.
keep_duplicates(used) == used

\* used.drop_duplicates(["mascot","date"]): the first row of each (mascot, date).
drop_duplicates(used) ==
    LET first == {i \in DOMAIN used :
                     \A j \in 1..(i - 1) :
                         used[j].mascot # used[i].mascot \/ used[j].date # used[i].date}
        RECURSIVE Pick(_)
        Pick(i) == IF i > Len(used) THEN <<>>
                   ELSE (IF i \in first THEN <<used[i]>> ELSE <<>>) \o Pick(i + 1)
    IN  Pick(1)

\* A bug: the percentage is truncated to one decimal.
TruncTenths(n, d) == n \div d

\* round(1) of n/d tenths: the nearest integer to n/d, a tie going to the even one.
RoundTenths(n, d) ==
    LET q == n \div d
        r == n % d
    IN  IF 2 * r < d THEN q
        ELSE IF 2 * r > d THEN q + 1
        ELSE IF q % 2 = 0 THEN q ELSE q + 1

rentals_utilization_monthly(rentals_df) ==
    LET bookings == Bookings(rentals_df.rows)
        used == [i \in DOMAIN bookings |->
                    [date |-> bookings[i].date, mascot |-> bookings[i].mascot,
                     month |-> MonthEnd(bookings[i].date)]]
        used_unique == drop_duplicates(used)
        groups == {<<used_unique[i].mascot, used_unique[i].month>> : i \in DOMAIN used_unique}
        booked_days(g) ==
            Cardinality({i \in DOMAIN used_unique :
                            used_unique[i].mascot = g[1] /\ used_unique[i].month = g[2]})
        out == {[month |-> g[2], mascot |-> g[1],
                 utilization_pct |->
                     RoundTenths(booked_days(g) * 1000, DaysInMonth(g[2].y, g[2].m))] :
                g \in groups}
    IN  IF IsEmpty(rentals_df) THEN rentals_df
        ELSE IF bookings = <<>> THEN EmptyFrame
        ELSE [cols |-> {"month", "mascot", "utilization_pct"}, rows |-> SetToSeq(out)]

----------------------------------------------------------------------------
(* Direct calls of the aggregates *)

\* ret: the function called, its filter argument, and what it returned or raised.
NoCall == [fn |-> "none", arg |-> {}, raised |-> FALSE, value |-> EmptyFrame]
Call(fn, arg, result) ==
    [fn |-> fn, arg |-> arg, raised |-> result.raised, value |-> result.value]

\* What a function does: it returns a value or raises an exception.
Return(value) == [raised |-> FALSE, value |-> value]
Raise(what) == [raised |-> TRUE, value |-> what]

NothingShown == [card \in {} |-> ""]

\* rentals_utilization_monthly(rentals_raw)
CallRentalsUtilization ==
    /\ pc = "api"
    /\ ret = NoCall
    /\ ret' = Call("rentals_utilization_monthly", {},
                   Return(rentals_utilization_monthly(rentals_raw)))
    /\ UNCHANGED <<pc, sales_file, suppliers_file, rentals_file, sales_raw, suppliers_raw,
                   rentals_raw, warnings, year_sel, cat_sel, shown>>

----------------------------------------------------------------------------
(* The rentals tables the aggregate is called with *)

MaxRentalRows == 2

RentalStamps ==
    {Stamp(2024, 3, 30, 0), Stamp(2024, 3, 30, 12), Stamp(2024, 3, 31, 0), Stamp(2024, 4, 2, 0)}

RentalCells == {DateCell(t) : t \in RentalStamps} \cup {TextCell("tbd")}

RentalSheetRows ==
    {[c \in {"Mascot", "Start_Date", "End_Date"} |->
         CASE c = "Mascot" -> TextCell(m) [] c = "Start_Date" -> s [] OTHER -> e] :
     m \in {"Leo", "Mia"}, s \in RentalCells, e \in RentalCells}

RentalSheets ==
    {Sheet({"Mascot", "Start_Date", "End_Date"}, rows) :
     rows \in SeqsUpTo(RentalSheetRows, MaxRentalRows)}

InitRentals ==
    /\ pc = "api"
    /\ sales_file = NoFile /\ suppliers_file = NoFile
    /\ rentals_file \in RentalSheets
    /\ sales_raw = EmptyFrame /\ suppliers_raw = EmptyFrame
    /\ rentals_raw = load_rentals(rentals_file).df
    /\ warnings = load_rentals(rentals_file).warn
    /\ year_sel = {} /\ cat_sel = {}
    /\ shown = NothingShown
    /\ ret = NoCall

NextRentals == CallRentalsUtilization

SpecRentals == InitRentals /\ [][NextRentals]_vars

----------------------------------------------------------------------------
(* Claims about rentals_utilization_monthly *)

RentalsCalled == ret.fn = "rentals_utilization_monthly" /\ ~ret.raised

Abs(x) == IF x < 0 THEN -x ELSE x

\* u is n/d rounded to the nearest integer.
IsNearest(u, n, d) == 2 * Abs(u * d - n) <= d

\* The calendar of the months the bookings can touch.
CalendarDays ==
    UNION {{Stamp(2024, m, d, 0) : d \in 1..DaysInMonth(2024, m)} : m \in 3..4}

\* Booking r covers the calendar day: the day lies between the day of its
\* start and the day of its end, both included.
Covers(r, day) ==
    /\ r.start # NaT /\ r.end # NaT /\ ~Before(r.end, r.start)
    /\ StampKey(Normalize(r.start)) <= StampKey(day)
    /\ StampKey(day) <= StampKey(Normalize(r.end))

WithoutRow(df, k) ==
    [df EXCEPT !.rows = [i \in 1..(Len(df.rows) - 1) |->
                            IF i < k THEN df.rows[i] ELSE df.rows[i + 1]]]

\* Rows i and j of df replaced by one booking from the earlier start to the later end.
Merged(df, i, j) ==
    LET a == df.rows[i]
        b == df.rows[j]
        one == [mascot |-> a.mascot,
                start |-> IF Before(b.start, a.start) THEN b.start ELSE a.start,
                end |-> IF Before(a.end, b.end) THEN b.end ELSE a.end]
        rest == WithoutRow(WithoutRow(df, j), i)
    IN  [rest EXCEPT !.rows = <<one>> \o rest.rows]

UtilizationOf(df) == Range(rentals_utilization_monthly(df).rows)

\* C1: every utilization is between 0 and 100 percent; a booking whose days
\* are all covered by the mascot's other bookings changes no utilization, and
\* two bookings of a mascot that share a day give what the single booking of
\* the union of their days gives.
C1_UtilizationNoDoubleCount ==
    RentalsCalled =>
        LET rows == rentals_raw.rows
        IN  /\ \A u \in Range(ret.value.rows) : u.utilization_pct \in 0..1000
            /\ \A k \in DOMAIN rows :
                   (\A day \in CalendarDays :
                        Covers(rows[k], day) =>
                            \E j \in DOMAIN rows \ {k} :
                                rows[j].mascot = rows[k].mascot /\ Covers(rows[j], day))
                   => UtilizationOf(WithoutRow(rentals_raw, k)) = Range(ret.value.rows)
            /\ \A i, j \in DOMAIN rows :
                   (/\ i < j
                    /\ rows[i].mascot = rows[j].mascot
                    /\ \E day \in CalendarDays : Covers(rows[i], day) /\ Covers(rows[j], day))
                   => UtilizationOf(Merged(rentals_raw, i, j)) = Range(ret.value.rows)

\* Two bookings of one mascot, the second inside the first, and a result.
C1_Witness ==
    /\ RentalsCalled
    /\ Len(rentals_raw.rows) >= 2
    /\ rentals_raw.rows[1].mascot = rentals_raw.rows[2].mascot
    /\ \E day \in CalendarDays : Covers(rentals_raw.rows[2], day)
    /\ \A day \in CalendarDays :
           Covers(rentals_raw.rows[2], day) => Covers(rentals_raw.rows[1], day)
    /\ ret.value.rows # <<>>

RentalMascots == {rentals_raw.rows[i].mascot : i \in DOMAIN rentals_raw.rows}

BookedDays(mascot, month) ==
    {day \in CalendarDays :
        /\ MonthEnd(day) = month
        /\ \E i \in DOMAIN rentals_raw.rows :
               rentals_raw.rows[i].mascot = mascot /\ Covers(rentals_raw.rows[i], day)}

\* C2: per (mascot, month) the result has a row exactly when some calendar day
\* of the month lies in one of the mascot's intervals, endpoints included, and
\* the row's percentage is booked days / days in the month x 100 rounded to one
\* decimal; Leo 2024-03-30..2024-04-02 gives March 6.5 and April 6.7.
C2_InclusiveDaysPerMonth ==
    RentalsCalled =>
        LET out == ret.value.rows
            months == {MonthEnd(day) : day \in CalendarDays}
        IN  /\ Cardinality(Range(out)) = Len(out)
            /\ \A u \in Range(out) : u.mascot \in RentalMascots /\ u.month \in months
            /\ \A mascot \in RentalMascots, month \in months :
                   LET b == Cardinality(BookedDays(mascot, month))
                       rowsFor == {u \in Range(out) : u.mascot = mascot /\ u.month = month}
                   IN  IF b = 0 THEN rowsFor = {}
                       ELSE /\ Cardinality(rowsFor) = 1
                            /\ \A u \in rowsFor :
                                   IsNearest(u.utilization_pct, b * 1000,
                                             DaysInMonth(month.y, month.m))
            /\ rentals_raw.rows = <<[mascot |-> "Leo", start |-> Stamp(2024, 3, 30, 0),
                                     end |-> Stamp(2024, 4, 2, 0)]>>
               => Range(out) = {[month |-> Stamp(2024, 3, 31, 0), mascot |-> "Leo",
                                 utilization_pct |-> 65],
                                [month |-> Stamp(2024, 4, 30, 0), mascot |-> "Leo",
                                 utilization_pct |-> 67]}

\* Leo's booking across the end of March has been aggregated.
C2_Witness ==
    /\ RentalsCalled
    /\ rentals_raw.rows = <<[mascot |-> "Leo", start |-> Stamp(2024, 3, 30, 0),
                             end |-> Stamp(2024, 4, 2, 0)]>>
    /\ Len(ret.value.rows) = 2


----------------------------------------------------------------------------
(* load_suppliers *)

SuppliersWarning == "warning: suppliers file needs 'Shop/Supplier' and 'Amount' columns"

\* Series.fillna(0)
fillna0(x) == IF x.ok THEN x ELSE Num(0)

load_suppliers(file) ==
    LET p == parse_excel_any_sheet(file)
        df == p.df
        supplier_col == first_present(df.cols, <<"shop", "supplier">>)
        category_col == first_present(df.cols, <<"category">>)
        amount_col == first_present(df.cols, <<"amount", "total_amount", "order_amount", "total">>)
        year_col == first_present(df.cols, <<"year">>)
        date_col == first_present(df.cols, <<"date", "order_date">>)
        year(r) == IF year_col # "" THEN ToNumeric(r[year_col])
                   ELSE IF date_col # ""
                   THEN (IF coerce_datetime(r[date_col]) = NaT THEN NaN
                         ELSE Num(coerce_datetime(r[date_col]).y))
                   ELSE NaN
        out == [i \in DOMAIN df.rows |->
                   [supplier |-> AsStr(df.rows[i][supplier_col]),
                    order_amount |-> fillna0(ToNumeric(df.rows[i][amount_col])),
                    category |-> IF category_col # "" THEN AsStr(df.rows[i][category_col])
                                 ELSE "Uncategorized",
                    year |-> year(df.rows[i])]]
    IN  IF IsEmpty(df) THEN [df |-> df, warn |-> p.warn]
        ELSE IF supplier_col = "" \/ amount_col = ""
        THEN [df |-> EmptyFrame, warn |-> {SuppliersWarning}]
        ELSE [df |-> [cols |-> {"supplier", "order_amount", "category", "year"}, rows |-> out],
              warn |-> {}]

----------------------------------------------------------------------------
(* supplier_dependence *)

\* Series.sum(): NaN is skipped.
RECURSIVE SumOf(_)
SumOf(xs) ==
    IF xs = <<>> THEN 0
    ELSE (IF Head(xs).ok THEN Head(xs).v ELSE 0) + SumOf(Tail(xs))

\* sort_values("order_amount", ascending=False) of the per-supplier totals.
RECURSIVE SortDescending(_)
SortDescending(S) ==
    IF S = {} THEN <<>>
    ELSE LET top == CHOOSE g \in S : \A h \in S : h.order_amount <= g.order_amount
         IN  <<top>> \o SortDescending(S \ {top})

\* agg.head(n)
HeadRows(rows, n) == SubSeq(rows, 1, IF Len(rows) < n THEN Len(rows) ELSE n)

\* A bug: only the largest supplier is taken.
Top1Amount(agg) == SumOf([i \in DOMAIN HeadRows(agg, 1) |-> Num(agg[i].order_amount)])

\* agg.head(2)["order_amount"].sum()
Top2Amount(agg) == SumOf([i \in DOMAIN HeadRows(agg, 2) |-> Num(agg[i].order_amount)])

\* years is the set of the selected years; an empty selection does not filter.
supplier_dependence(sup_df, years) ==
    LET all == sup_df.rows
        keep == IF years # {}
                THEN {i \in DOMAIN all : all[i].year.ok /\ all[i].year.v \in years}
                ELSE DOMAIN all
        df == SelectRows(all, keep)
        names == {df[i].supplier : i \in DOMAIN df}
        amounts(n) == SelectRows(df, {i \in DOMAIN df : df[i].supplier = n})
        agg == SortDescending(
                   {[supplier |-> n,
                     order_amount |-> SumOf([i \in DOMAIN amounts(n) |->
                                                amounts(n)[i].order_amount])] : n \in names})
        total == SumOf([i \in DOMAIN agg |-> Num(agg[i].order_amount)])
        top2 == IF total > 0 THEN Top2Amount(agg) ELSE 0
        pct == IF total > 0 THEN [num |-> top2 * 100, den |-> total]
               ELSE IF total < 0 THEN [num |-> 0, den |-> -total]
               ELSE [num |-> 0, den |-> 1]
    IN  IF years # {} /\ "year" \notin sup_df.cols THEN Raise("KeyError: 'year'")
        ELSE IF "supplier" \notin sup_df.cols THEN Raise("KeyError: 'supplier'")
        ELSE Return([pct |-> pct, agg |-> agg])

\* supplier_dependence(suppliers_raw, years)
CallSupplierDependence ==
    /\ pc = "api"
    /\ ret = NoCall
    /\ \E years \in {{}, {2024}, {2023, 2024}} :
           ret' = Call("supplier_dependence", years, supplier_dependence(suppliers_raw, years))
    /\ UNCHANGED <<pc, sales_file, suppliers_file, rentals_file, sales_raw, suppliers_raw,
                   rentals_raw, warnings, year_sel, cat_sel, shown>>

----------------------------------------------------------------------------
(* The supplier tables the aggregate is called with *)

MaxSupplierRows == 3

SupplierColumns == {" Shop ", "Amount", "Year"}

SupplierSheetRow(shop, amount, year) ==
    [c \in SupplierColumns |->
        CASE c = " Shop " -> TextCell(shop) [] c = "Amount" -> amount [] OTHER -> year]

SupplierSheetRows ==
    {SupplierSheetRow("A", a, y) :
        a \in {NumCell(600), NumCell(0), NumCell(-100), TextCell("n/a")},
        y \in {NumCell(2024), Blank}}
    \cup {SupplierSheetRow("B", a, y) :
        a \in {NumCell(300), TextCell("n/a")}, y \in {NumCell(2024), Blank}}
    \cup {SupplierSheetRow("C", NumCell(100), y) : y \in {NumCell(2024), Blank}}

SupplierSheets ==
    {Sheet(SupplierColumns, rows) : rows \in SeqsUpTo(SupplierSheetRows, MaxSupplierRows)}

InitSuppliers ==
    /\ pc = "api"
    /\ sales_file = NoFile /\ rentals_file = NoFile
    /\ suppliers_file \in SupplierSheets \cup {NoFile}
    /\ sales_raw = EmptyFrame /\ rentals_raw = EmptyFrame
    /\ suppliers_raw = (IF suppliers_file.exists THEN load_suppliers(suppliers_file).df
                        ELSE EmptyFrame)
    /\ warnings = (IF suppliers_file.exists THEN load_suppliers(suppliers_file).warn ELSE {})
    /\ year_sel = {} /\ cat_sel = {}
    /\ shown = NothingShown
    /\ ret = NoCall

NextSuppliers == CallSupplierDependence

SpecSuppliers == InitSuppliers /\ [][NextSuppliers]_vars

----------------------------------------------------------------------------
(* Claims about supplier_dependence *)

SuppliersCalled == ret.fn = "supplier_dependence" /\ ~ret.raised

\* The supplier-order records that pass the year filter of the call.
FilteredOrders ==
    {i \in DOMAIN suppliers_raw.rows :
        ret.arg = {} \/ (suppliers_raw.rows[i].year.ok /\ suppliers_raw.rows[i].year.v \in ret.arg)}

FilteredSuppliers == {suppliers_raw.rows[i].supplier : i \in FilteredOrders}

FilteredTotal ==
    SumOver(FilteredOrders, [i \in FilteredOrders |-> suppliers_raw.rows[i].order_amount.v])

PctInRange(pct) == pct.den > 0 /\ 0 <= pct.num /\ pct.num <= 100 * pct.den
PctIs(pct, n) == pct.den > 0 /\ pct.num = n * pct.den

\* C3 as stated: the share is in [0, 100], and it is 100 whenever one or two
\* distinct suppliers exist in the filtered table.
C3_AsStated ==
    SuppliersCalled =>
        /\ PctInRange(ret.value.pct)
        /\ Cardinality(FilteredSuppliers) \in {1, 2} => PctIs(ret.value.pct, 100)

\* C3 amended: when no filtered order amount is negative, the share is in
\* [0, 100]; it is 100 when one or two distinct suppliers exist and their
\* total order amount is positive, and it is 0 when the total is zero.
C3_ShareWhenAmountsNonNegative ==
    (/\ SuppliersCalled
     /\ \A i \in FilteredOrders : suppliers_raw.rows[i].order_amount.v >= 0)
    => /\ PctInRange(ret.value.pct)
       /\ (Cardinality(FilteredSuppliers) \in {1, 2} /\ FilteredTotal > 0)
              => PctIs(ret.value.pct, 100)
       /\ FilteredTotal = 0 => PctIs(ret.value.pct, 0)

\* Two suppliers with a positive total have been aggregated.
C3_Witness ==
    /\ SuppliersCalled
    /\ \A i \in FilteredOrders : suppliers_raw.rows[i].order_amount.v >= 0
    /\ Cardinality(FilteredSuppliers) = 2
    /\ FilteredTotal > 0
    /\ Len(suppliers_raw.rows) = 3
    /\ PctIs(ret.value.pct, 100)

----------------------------------------------------------------------------
(* load_sales *)

SalesDateWarning == "warning: sales file has no Date column"
SalesRevenueWarning == "warning: sales file has no revenue column; revenue set to 0"

\* The product of two floats: NaN when either is NaN.
Times(a, b) == IF a.ok /\ b.ok THEN Num(a.v * b.v) ELSE NaN

\* The optional subcategory and product columns are copied and never read by
\* an aggregate; they are left out. customer_id is "" where the frame has no
\* such column.
load_sales(file) ==
    LET p == parse_excel_any_sheet(file)
        df == p.df
        date_col == first_present(df.cols, <<"date", "order_date", "order date">>)
        cat_col == first_present(df.cols, <<"category", "main category", "main_category">>)
        cust_col == first_present(df.cols, <<"customer_id", "customer", "id">>)
        revenue_col ==
            first_present(df.cols, <<"total_amount", "amount", "revenue", "total", "sales">>)
        qty_col == first_present(df.cols, <<"quantity", "qty", "count">>)
        unit_price_col == first_present(df.cols, <<"unit_price", "price", "unit price">>)
        revenue(r) ==
            IF revenue_col # "" THEN ToNumeric(r[revenue_col])
            ELSE IF qty_col # "" /\ unit_price_col # ""
            THEN Times(ToNumeric(r[qty_col]), ToNumeric(r[unit_price_col]))
            ELSE Num(0)
        out == [i \in DOMAIN df.rows |->
                   [date |-> coerce_datetime(df.rows[i][date_col]),
                    category |-> IF cat_col # "" THEN AsStr(df.rows[i][cat_col])
                                 ELSE "Uncategorized",
                    customer_id |-> IF cust_col # "" THEN AsStr(df.rows[i][cust_col]) ELSE "",
                    revenue |-> revenue(df.rows[i])]]
        dated == {i \in DOMAIN out : out[i].date # NaT}
    IN  IF IsEmpty(df) THEN [df |-> df, warn |-> p.warn]
        ELSE IF date_col = "" THEN [df |-> EmptyFrame, warn |-> {SalesDateWarning}]
        ELSE [df |-> [cols |-> {"date", "category", "revenue"}
                               \cup (IF cust_col # "" THEN {"customer_id"} ELSE {}),
                      rows |-> SelectRows(out, dated)],
              warn |-> IF revenue_col = "" /\ (qty_col = "" \/ unit_price_col = "")
                       THEN {SalesRevenueWarning} ELSE {}]

----------------------------------------------------------------------------
(* monthly_sales_with_forecast *)

CutoffYear == 2024
ForecastYear == 2025

\* A mean, sum / count, or the NaN of a month-number without reference.
NoRatio == [ok |-> FALSE, num |-> 0, den |-> 1]
Ratio(num, den) == [ok |-> TRUE, num |-> num, den |-> den]

\* Without the forward fill: the missing values are left to the back fill.
nofill(xs) == xs

\* fillna(method="ffill"): a missing value takes the last value before it.
RECURSIVE ffill(_)
ffill(xs) ==
    IF xs = <<>> THEN <<>>
    ELSE LET init == ffill(SubSeq(xs, 1, Len(xs) - 1))
             last == xs[Len(xs)]
         IN  Append(init, IF ~last.ok /\ init # <<>> THEN init[Len(init)] ELSE last)

\* fillna(method="bfill"): a missing value takes the next value after it.
RECURSIVE bfill(_)
bfill(xs) ==
    IF xs = <<>> THEN <<>>
    ELSE LET rest == bfill(Tail(xs))
         IN  <<IF ~Head(xs).ok /\ rest # <<>> THEN Head(rest) ELSE Head(xs)>> \o rest

\* hist.groupby("m")["revenue"].mean() at month-number k.
Reference(hist, k) ==
    LET same == {r \in hist : r.m = k}
    IN  IF same = {} THEN NoRatio
        ELSE Ratio(SumOver(same, [r \in same |-> r.revenue]), Cardinality(same))

\* A bug: every monthly total counts as history.
AllHistory(monthly) == monthly

\* With the forecast year counted as history.
HistoryThroughForecastYear(monthly) == {r \in monthly : r.year <= ForecastYear}

\* monthly[monthly["year"] <= 2024]
History(monthly) == {r \in monthly : r.year <= CutoffYear}

\* A bug: a month keeps its first record's revenue only.
MonthlyFirst(df) ==
    LET months == {MonthEnd(df[i].date) : i \in DOMAIN df}
        of(mo) == SelectRows(df, {i \in DOMAIN df : MonthEnd(df[i].date) = mo})
    IN  {[month |-> mo, revenue |-> SumOf(<<of(mo)[1].revenue>>),
          year |-> mo.y, m |-> mo.m] : mo \in months}

\* df.groupby("month")["revenue"].sum(), with the year and m columns.
MonthlyTotals(df) ==
    LET months == {MonthEnd(df[i].date) : i \in DOMAIN df}
        of(mo) == SelectRows(df, {i \in DOMAIN df : MonthEnd(df[i].date) = mo})
    IN  {[month |-> mo,
          revenue |-> SumOf([i \in DOMAIN of(mo) |-> of(mo)[i].revenue]),
          year |-> mo.y, m |-> mo.m] : mo \in months}

\* if cat_filter: df = df[df["category"].isin(cat_filter)]
CategoryFilter(rows, cat_filter) ==
    IF cat_filter # {}
    THEN SelectRows(rows, {i \in DOMAIN rows : rows[i].category \in cat_filter})
    ELSE rows

monthly_sales_with_forecast(sales_df, cat_filter) ==
    LET df == CategoryFilter(sales_df.rows, cat_filter)
        monthly == MonthlyTotals(df)
        hist == History(monthly)
        merged == [k \in 1..12 |-> Reference(hist, k)]
        filled == bfill(ffill(merged))
        future == [k \in 1..12 |->
                      [month |-> Stamp(ForecastYear, k, DaysInMonth(ForecastYear, k), 0),
                       revenue |-> filled[k],
                       series |-> "Forecast (Seasonal-Naive)"]]
        actual == {[month |-> r.month, revenue |-> r.revenue, series |-> "Actual"] :
                   r \in monthly}
    IN  IF cat_filter # {} /\ "category" \notin sales_df.cols THEN Raise("KeyError: 'category'")
        ELSE IF "date" \notin sales_df.cols THEN Raise("KeyError: 'date'")
        ELSE IF "revenue" \notin sales_df.cols THEN Raise("KeyError: 'revenue'")
        ELSE IF hist = {}
        THEN Return([actual |-> [cols |-> {"month", "revenue", "year", "m", "series"},
                                 rows |-> SetToSeq(actual)],
                     future |-> EmptyFrame])
        ELSE Return([actual |-> [cols |-> {"month", "revenue", "series"},
                                 rows |-> SetToSeq(actual)],
                     future |-> [cols |-> {"month", "revenue", "series"}, rows |-> future]])

\* monthly_sales_with_forecast(sales_raw, cat_filter)
CallMonthlySales ==
    /\ pc = "api"
    /\ ret = NoCall
    /\ \E cat_filter \in SUBSET {"Toys", "Halloween"} :
           ret' = Call("monthly_sales_with_forecast", cat_filter,
                       monthly_sales_with_forecast(sales_raw, cat_filter))
    /\ UNCHANGED <<pc, sales_file, suppliers_file, rentals_file, sales_raw, suppliers_raw,
                   rentals_raw, warnings, year_sel, cat_sel, shown>>

----------------------------------------------------------------------------
(* rfm_segmentation: quintile scores and segments *)

\* The labels of pd.qcut(..., 5, labels=[1,2,3,4,5]).
ScoreLabels == {1, 2, 3, 4, 5}

\* The values of a column in ascending order.
RECURSIVE Ascending(_)
Ascending(xs) ==
    IF xs = <<>> THEN <<>>
    ELSE LET k == CHOOSE i \in DOMAIN xs : \A j \in DOMAIN xs : xs[i] <= xs[j]
         IN  <<xs[k]>> \o Ascending(SelectRows(xs, DOMAIN xs \ {k}))

\* Five times the quantile k/5 of the ascending values s, by linear
\* interpolation between the neighbours of position (n - 1) * k / 5.
Quantile5(s, k) ==
    LET pos == (Len(s) - 1) * k
        lo == (pos \div 5) + 1
        rem == pos % 5
    IN  IF rem = 0 THEN 5 * s[lo] ELSE 5 * s[lo] + rem * (s[lo + 1] - s[lo])

\* pd.qcut(xs, 5, labels=[1,2,3,4,5]): the bins are right-closed, the first
\* includes the lowest value; edges that are not unique raise ValueError.
qcut(xs) ==
    LET s == Ascending(xs)
        edge(k) == Quantile5(s, k)
        unique == \A k \in 1..5 : edge(k - 1) < edge(k)
        bin(x) == CHOOSE k \in ScoreLabels :
                      /\ 5 * x <= edge(k)
                      /\ \A j \in 1..(k - 1) : 5 * x > edge(j)
    IN  IF unique THEN Return([i \in DOMAIN xs |-> bin(xs[i])])
        ELSE Raise("ValueError: Bin edges must be unique")

\* try: qcut(...).astype(int)  except Exception: 3
ScoreOf(xs) ==
    LET cut == qcut(xs)
    IN  IF cut.raised THEN [i \in DOMAIN xs |-> 3] ELSE cut.value

\* Series.rank(method="first"): ties are ranked in the order of the rows.
RankFirst(xs) ==
    [i \in DOMAIN xs |->
        1 + Cardinality({j \in DOMAIN xs : xs[j] < xs[i] \/ (xs[j] = xs[i] /\ j < i)})]

\* segment_row with its rule for "New" tried first.
segment_row_new_first(r, f) ==
    IF r = 5 /\ f = 1 THEN "New"
    ELSE IF r >= 4 /\ f >= 4 THEN "Champions"
    ELSE IF r >= 4 /\ f <= 3 THEN "Potential Loyalists"
    ELSE IF r = 3 /\ f >= 4 THEN "Loyal"
    ELSE IF r <= 2 /\ f >= 4 THEN "At-risk"
    ELSE IF r <= 2 /\ f <= 2 THEN "Hibernating"
    ELSE "Promising"

\* segment_row with "Hibernating" reaching up to a frequency score of 3.
segment_row_wide_hibernating(r, f) ==
    IF r >= 4 /\ f >= 4 THEN "Champions"
    ELSE IF r >= 4 /\ f <= 3 THEN "Potential Loyalists"
    ELSE IF r = 3 /\ f >= 4 THEN "Loyal"
    ELSE IF r <= 2 /\ f >= 4 THEN "At-risk"
    ELSE IF r <= 2 /\ f <= 3 THEN "Hibernating"
    ELSE IF r = 5 /\ f = 1 THEN "New"
    ELSE "Promising"

\* segment_row(r, f): the first rule that matches decides.
segment_row(r, f) ==
    IF r >= 4 /\ f >= 4 THEN "Champions"
    ELSE IF r >= 4 /\ f <= 3 THEN "Potential Loyalists"
    ELSE IF r = 3 /\ f >= 4 THEN "Loyal"
    ELSE IF r <= 2 /\ f >= 4 THEN "At-risk"
    ELSE IF r <= 2 /\ f <= 2 THEN "Hibernating"
    ELSE IF r = 5 /\ f = 1 THEN "New"
    ELSE "Promising"

\* rfm["segment"] = [segment_row(r, f) for r, f in zip(R_score, F_score)]
WithSegments(rows) ==
    [k \in DOMAIN rows |->
        rows[k] @@ ("segment" :> segment_row(rows[k].R_score, rows[k].F_score))]

\* rfm["segment"].value_counts(): the customers of each segment that occurs.
value_counts(rows) ==
    {[segment |-> seg, customers |-> Cardinality({k \in DOMAIN rows : rows[k].segment = seg})] :
        seg \in {rows[k].segment : k \in DOMAIN rows}}

----------------------------------------------------------------------------
(* rfm_segmentation *)

\* The number of the day of a Timestamp, counted from 0001-01-01.
RECURSIVE DaysBeforeMonth(_, _)
DaysBeforeMonth(y, m) ==
    IF m <= 1 THEN 0 ELSE DaysBeforeMonth(y, m - 1) + DaysInMonth(y, m - 1)

Ordinal(t) ==
    365 * (t.y - 1) + ((t.y - 1) \div 4) - ((t.y - 1) \div 100) + ((t.y - 1) \div 400)
    + DaysBeforeMonth(t.y, t.m) + t.d

\* Series.max() of Timestamps.
MaxStamp(S) == CHOOSE t \in S : \A u \in S : StampKey(u) <= StampKey(t)

\* A bug: frequency counts the records, not the distinct dates.
CountRecords(mine) == Len(mine)

\* grp["date_only"].nunique()
CountDates(mine) == Cardinality({Normalize(mine[i].date) : i \in DOMAIN mine})

\* The keys of df.groupby("customer_id").
CustomerGroups(df) == {df[i].customer_id : i \in DOMAIN df}

\* The customer ids of the sheets in the order in which groupby sorts them.
KeyOrder == <<"c1", "c2", "nan">>

\* The keys of df.groupby("customer_id") in sorted order.
GroupKeys(df) ==
    SelectRows(KeyOrder, {k \in DOMAIN KeyOrder : KeyOrder[k] \in CustomerGroups(df)})

\* On a frame with the customer_id column and no row,
\* (pd.Timestamp(NaT) - last_date).dt either yields an empty frame or
\* raises, depending on the dtype the empty groupby produces: both outcomes
\* are kept.
rfm_segmentation(sales_df) ==
    LET all == sales_df.rows
        df == SelectRows(all, {i \in DOMAIN all : all[i].date # NaT})
        asof == MaxStamp({df[i].date : i \in DOMAIN df})
        mine(c) == SelectRows(df, {i \in DOMAIN df : df[i].customer_id = c})
        last_date(c) == MaxStamp({Normalize(mine(c)[i].date) : i \in DOMAIN mine(c)})
        keys == GroupKeys(df)
        base == [k \in DOMAIN keys |->
                    [customer_id |-> keys[k],
                     recency_days |-> Ordinal(asof) - Ordinal(last_date(keys[k])),
                     frequency |-> CountDates(mine(keys[k])),
                     monetary |-> SumOf([i \in DOMAIN mine(keys[k]) |->
                                            mine(keys[k])[i].revenue])]]
        R == ScoreOf([k \in DOMAIN base |-> 0 - base[k].recency_days])
        F == ScoreOf(RankFirst([k \in DOMAIN base |-> base[k].frequency]))
        M == ScoreOf(RankFirst([k \in DOMAIN base |-> base[k].monetary]))
        rfm == WithSegments([k \in DOMAIN base |->
                                base[k] @@ [R_score |-> R[k], F_score |-> F[k],
                                            M_score |-> M[k]]])
    IN  IF "customer_id" \notin sales_df.cols
        THEN {Return([rfm |-> EmptyFrame, seg_counts |-> EmptyFrame])}
        ELSE IF "date" \notin sales_df.cols THEN {Raise("KeyError: 'date'")}
        ELSE IF df = <<>>
        THEN {Return([rfm |-> EmptyFrame, seg_counts |-> EmptyFrame]),
              Raise("AttributeError: .dt accessor")}
        ELSE {Return([rfm |-> [cols |-> {"customer_id", "recency_days", "frequency",
                                         "monetary", "R_score", "F_score", "M_score",
                                         "segment"},
                               rows |-> rfm],
                      seg_counts |-> [cols |-> {"segment", "customers"},
                                      rows |-> SetToSeq(value_counts(rfm))]])}

\* sales_export.groupby(["month","category"])["revenue"].sum() of the Exports
\* section.
MonthlySalesExport(sales_df) ==
    LET df == sales_df.rows
        keys == {<<MonthEnd(df[i].date), df[i].category>> : i \in DOMAIN df}
        of(k) == SelectRows(df, {i \in DOMAIN df :
                                    MonthEnd(df[i].date) = k[1] /\ df[i].category = k[2]})
    IN  [cols |-> {"month", "category", "revenue"},
         rows |-> SetToSeq({[month |-> k[1], category |-> k[2],
                             revenue |-> SumOf([i \in DOMAIN of(k) |-> of(k)[i].revenue])] :
                            k \in keys})]

\* The Exports section's monthly sales CSV: built when sales_raw is not empty.
ExportMonthlySales ==
    /\ pc = "api"
    /\ ret = NoCall
    /\ ~IsEmpty(sales_raw)
    /\ ret' = Call("monthly_sales export", {}, Return(MonthlySalesExport(sales_raw)))
    /\ UNCHANGED <<pc, sales_file, suppliers_file, rentals_file, sales_raw, suppliers_raw,
                   rentals_raw, warnings, year_sel, cat_sel, shown>>

\* rfm_segmentation(sales_raw)
CallRfm ==
    /\ pc = "api"
    /\ ret = NoCall
    /\ \E outcome \in rfm_segmentation(sales_raw) :
           ret' = Call("rfm_segmentation", {}, outcome)
    /\ UNCHANGED <<pc, sales_file, suppliers_file, rentals_file, sales_raw, suppliers_raw,
                   rentals_raw, warnings, year_sel, cat_sel, shown>>

----------------------------------------------------------------------------
(* The sales tables the aggregates are called with *)

MaxSalesRows == 2

SalesColumns == {"Date", "Category", "Customer_ID", "Total_Amount"}

SalesSheetRow(date, category, customer, amount) ==
    [c \in SalesColumns |->
        CASE c = "Date" -> date [] c = "Category" -> TextCell(category)
          [] c = "Customer_ID" -> customer [] OTHER -> amount]

\* One sale of 100 on the 15th of every month of 2023.
Year2023 ==
    [k \in 1..12 |->
        SalesSheetRow(DateCell(Stamp(2023, k, 15, 0)), "Toys", TextCell("c1"), NumCell(100))]

SalesSheetRows ==
    {SalesSheetRow(DateCell(Stamp(2023, 1, 15, 0)), "Toys", TextCell("c1"), NumCell(100)),
     SalesSheetRow(DateCell(Stamp(2024, 1, 20, 0)), "Toys", TextCell("c1"), NumCell(300)),
     SalesSheetRow(DateCell(Stamp(2024, 1, 20, 9)), "Toys", TextCell("c1"), NumCell(100)),
     SalesSheetRow(DateCell(Stamp(2024, 1, 20, 0)), "Halloween", TextCell("c2"), NumCell(300)),
     SalesSheetRow(DateCell(Stamp(2024, 2, 5, 0)), "Halloween", TextCell("c1"), NumCell(100)),
     SalesSheetRow(DateCell(Stamp(2024, 6, 10, 0)), "Toys", TextCell("c2"), NumCell(500)),
     SalesSheetRow(DateCell(Stamp(2025, 1, 10, 0)), "Toys", TextCell("c2"), NumCell(100)),
     SalesSheetRow(DateCell(Stamp(2025, 1, 10, 0)), "Halloween", TextCell("c1"), NumCell(300)),
     SalesSheetRow(DateCell(Stamp(2023, 1, 15, 0)), "Halloween", TextCell("c2"), NumCell(100)),
     SalesSheetRow(TextCell("soon"), "Toys", TextCell("c1"), NumCell(100)),
     SalesSheetRow(DateCell(Stamp(2024, 1, 20, 0)), "Toys", TextCell("c2"), TextCell("n/a")),
     SalesSheetRow(DateCell(Stamp(2023, 1, 15, 0)), "Toys", Blank, NumCell(100))}

\* The sheet with or without its Customer_ID column.
SalesSheets ==
    {Sheet(cols, [i \in DOMAIN rows |-> [c \in cols |-> rows[i][c]]]) :
        cols \in {SalesColumns, SalesColumns \ {"Customer_ID"}},
        rows \in {base \o extra : base \in {<<>>, Year2023},
                                  extra \in SeqsUpTo(SalesSheetRows, MaxSalesRows)}}

InitSales ==
    /\ pc = "api"
    /\ suppliers_file = NoFile /\ rentals_file = NoFile
    /\ sales_file \in SalesSheets \cup {NoFile}
    /\ suppliers_raw = EmptyFrame /\ rentals_raw = EmptyFrame
    /\ sales_raw = (IF sales_file.exists THEN load_sales(sales_file).df ELSE EmptyFrame)
    /\ warnings = (IF sales_file.exists THEN load_sales(sales_file).warn ELSE {})
    /\ year_sel = {} /\ cat_sel = {}
    /\ shown = NothingShown
    /\ ret = NoCall

NextSales == CallMonthlySales \/ CallRfm \/ ExportMonthlySales

SpecSales == InitSales /\ [][NextSales]_vars

----------------------------------------------------------------------------
(* Claims about the sales aggregates *)

RfmCalled == ret.fn = "rfm_segmentation" /\ ~ret.raised
MonthlyCalled == ret.fn = "monthly_sales_with_forecast" /\ ~ret.raised
ExportCalled == ret.fn = "monthly_sales export" /\ ~ret.raised

\* The revenue of record i of sales_raw as a number: a NaN adds nothing to a sum.
RevenueOf(i) == IF sales_raw.rows[i].revenue.ok THEN sales_raw.rows[i].revenue.v ELSE 0

RevenueOver(S) == SumOver(S, [i \in S |-> RevenueOf(i)])

RecordsOf(c) == {i \in DOMAIN sales_raw.rows : sales_raw.rows[i].customer_id = c}

\* The calendar day of a Timestamp.
DayOf(t) == <<t.y, t.m, t.d>>

\* C4: the rfm frame has exactly one row per distinct customer_id of the
\* table; its frequency is the number of distinct purchase days of the
\* customer, at least 1, and its monetary the sum of the customer's revenue.
C4_OneRowPerCustomer ==
    (RfmCalled /\ "customer_id" \in sales_raw.cols) =>
        LET out == ret.value.rfm.rows
            customers == {sales_raw.rows[i].customer_id : i \in DOMAIN sales_raw.rows}
        IN  /\ Len(out) = Cardinality(customers)
            /\ {out[k].customer_id : k \in DOMAIN out} = customers
            /\ \A k \in DOMAIN out :
                   /\ out[k].frequency =
                          Cardinality({DayOf(sales_raw.rows[i].date) :
                                       i \in RecordsOf(out[k].customer_id)})
                   /\ out[k].frequency >= 1
                   /\ out[k].monetary = RevenueOver(RecordsOf(out[k].customer_id))

\* Two customers, one of them with two purchases on one day.
C4_Witness ==
    /\ RfmCalled
    /\ Len(ret.value.rfm.rows) = 2
    /\ \E k \in DOMAIN ret.value.rfm.rows :
           LET r == ret.value.rfm.rows[k]
           IN  r.frequency < Cardinality(RecordsOf(r.customer_id)) /\ r.monetary > 0

\* The records that pass the category filter of the call.
FilteredSales ==
    {i \in DOMAIN sales_raw.rows : ret.arg = {} \/ sales_raw.rows[i].category \in ret.arg}

\* The filtered records of month-number k in year y.
SalesIn(y, k) ==
    {i \in FilteredSales : sales_raw.rows[i].date.y = y /\ sales_raw.rows[i].date.m = k}

SalesYears == {sales_raw.rows[i].date.y : i \in DOMAIN sales_raw.rows}

\* The years up to the cutoff in which month-number k has a monthly total.
ReferenceYears(k) == {y \in SalesYears : y <= 2024 /\ SalesIn(y, k) # {}}

\* C5: when every month-number has a monthly total in a year <= 2024, the
\* forecast has 12 points, the months of 2025 in order, and the point of
\* month-number k is the mean over the years <= 2024 of the monthly totals of
\* k; January totals of 100 and 300 give 200.
C5_ForecastIsMonthlyMean ==
    (MonthlyCalled /\ \A k \in 1..12 : ReferenceYears(k) # {}) =>
        LET future == ret.value.future.rows
        IN  /\ Len(future) = 12
            /\ \A k \in 1..12 :
                   LET total == SumOver(ReferenceYears(k),
                                        [y \in ReferenceYears(k) |-> RevenueOver(SalesIn(y, k))])
                   IN  /\ DayOf(future[k].month) = <<2025, k, DaysInMonth(2025, k)>>
                       /\ future[k].revenue.ok
                       /\ future[k].revenue.num * Cardinality(ReferenceYears(k))
                              = total * future[k].revenue.den
            /\ (/\ ReferenceYears(1) = {2023, 2024}
                /\ RevenueOver(SalesIn(2023, 1)) = 100
                /\ RevenueOver(SalesIn(2024, 1)) = 300)
               => future[1].revenue.num = 200 * future[1].revenue.den

\* January has totals 100 in 2023 and 300 in 2024, and a sale in 2025.
C5_Witness ==
    /\ MonthlyCalled
    /\ \A k \in 1..12 : ReferenceYears(k) # {}
    /\ ReferenceYears(1) = {2023, 2024}
    /\ RevenueOver(SalesIn(2023, 1)) = 100
    /\ RevenueOver(SalesIn(2024, 1)) = 300
    /\ SalesIn(2025, 1) # {}
    /\ ret.value.future.rows[1].revenue = Ratio(400, 2)

\* C6: the revenues of the actual series sum to the revenue of the records
\* that pass the category filter, every such record's month has a point, and
\* the export's (month, category) rollup sums to the revenue of the table.
C6_TotalsPreserved ==
    /\ MonthlyCalled =>
           LET actual == ret.value.actual.rows
           IN  /\ SumOver(DOMAIN actual, [k \in DOMAIN actual |-> actual[k].revenue])
                      = RevenueOver(FilteredSales)
               /\ \A i \in FilteredSales :
                      Cardinality({k \in DOMAIN actual :
                                      /\ actual[k].month.y = sales_raw.rows[i].date.y
                                      /\ actual[k].month.m = sales_raw.rows[i].date.m}) = 1
    /\ ExportCalled =>
           LET rollup == ret.value.rows
           IN  /\ SumOver(DOMAIN rollup, [k \in DOMAIN rollup |-> rollup[k].revenue])
                      = RevenueOver(DOMAIN sales_raw.rows)
               /\ \A i \in DOMAIN sales_raw.rows :
                      Cardinality({k \in DOMAIN rollup :
                                      /\ rollup[k].month.y = sales_raw.rows[i].date.y
                                      /\ rollup[k].month.m = sales_raw.rows[i].date.m
                                      /\ rollup[k].category = sales_raw.rows[i].category}) = 1

\* A filter that lets some records pass and stops others, two records in one month.
C6_Witness ==
    /\ MonthlyCalled
    /\ FilteredSales # {} /\ FilteredSales # DOMAIN sales_raw.rows
    /\ Len(ret.value.actual.rows) < Cardinality(FilteredSales)
    /\ RevenueOver(FilteredSales) > 0

\* The (year, month) pairs in which a filtered record falls.
FilteredMonths ==
    {<<sales_raw.rows[i].date.y, sales_raw.rows[i].date.m>> : i \in FilteredSales}

\* C11: called with a sales table in which no record that passes the category
\* filter is dated in a year <= 2024, monthly_sales_with_forecast returns an
\* empty forecast, and an actual series with exactly one point for each
\* (year, month) in which a filtered record falls, carrying that month's revenue.
C11_NoHistoryNoForecast ==
    (/\ ret.fn = "monthly_sales_with_forecast"
     /\ "date" \in sales_raw.cols
     /\ \A i \in FilteredSales : sales_raw.rows[i].date.y > 2024)
        => /\ ~ret.raised
           /\ IsEmpty(ret.value.future)
           /\ LET actual == ret.value.actual.rows
              IN  /\ Len(actual) = Cardinality(FilteredMonths)
                  /\ {<<actual[k].month.y, actual[k].month.m>> : k \in DOMAIN actual}
                         = FilteredMonths
                  /\ \A k \in DOMAIN actual :
                         /\ actual[k].series = "Actual"
                         /\ actual[k].revenue
                                = RevenueOver(SalesIn(actual[k].month.y, actual[k].month.m))

\* The filter leaves a sale of 2025 and stops a sale of an earlier year.
C11_Witness ==
    /\ MonthlyCalled
    /\ FilteredSales # {}
    /\ \A i \in FilteredSales : sales_raw.rows[i].date.y > 2024
    /\ \E i \in DOMAIN sales_raw.rows : sales_raw.rows[i].date.y <= 2024
    /\ IsEmpty(ret.value.future)
    /\ Len(ret.value.actual.rows) = 1
    /\ ret.value.actual.rows[1].revenue > 0

\* The month-numbers that have a monthly total in a year up to the cutoff.
ReferenceMonths == {k \in 1..12 : ReferenceYears(k) # {}}

\* The month-number whose reference average month-number k is forecast with:
\* k itself or else the nearest earlier one, and with none the nearest later one.
FillSource(k) ==
    LET earlier == {j \in ReferenceMonths : j <= k}
        later == {j \in ReferenceMonths : j > k}
    IN  IF earlier # {} THEN CHOOSE j \in earlier : \A i \in earlier : i <= j
        ELSE CHOOSE j \in later : \A i \in later : j <= i

\* C14: when some month-number has a monthly total in a year <= 2024, the
\* forecast has 12 points, the months of 2025 in order, none missing; the point
\* of month-number k is the mean of the monthly totals of the nearest
\* month-number at or before k that has a reference, and when there is none,
\* of the nearest one after k.
C14_MissingMonthsFilled ==
    (MonthlyCalled /\ ReferenceMonths # {}) =>
        LET future == ret.value.future.rows
        IN  /\ Len(future) = 12
            /\ \A k \in 1..12 :
                   LET src == FillSource(k)
                       total == SumOver(ReferenceYears(src),
                                        [y \in ReferenceYears(src) |->
                                            RevenueOver(SalesIn(y, src))])
                   IN  /\ DayOf(future[k].month) = <<2025, k, DaysInMonth(2025, k)>>
                       /\ future[k].revenue.ok
                       /\ future[k].revenue.num * Cardinality(ReferenceYears(src))
                              = total * future[k].revenue.den

\* Only February and June have a reference, with different averages: January
\* takes February's, March to May February's, July to December June's.
C14_Witness ==
    /\ MonthlyCalled
    /\ ReferenceMonths = {2, 6}
    /\ LET future == ret.value.future.rows
       IN  /\ future[2].revenue # future[6].revenue
           /\ future[1].revenue = future[2].revenue
           /\ future[5].revenue = future[2].revenue
           /\ future[12].revenue = future[6].revenue

----------------------------------------------------------------------------
(* Segment assignment on scored customers *)

\* The customers of an rfm frame that has its three score columns.
ScoredCustomers == <<"c1", "c2">>

\* The rfm frames before the segment column is assigned: one or two
\* customers, each score any of the labels qcut can give.
ScoredFrames ==
    {[cols |-> {"customer_id", "R_score", "F_score", "M_score"},
      rows |-> [k \in 1..n |-> [customer_id |-> ScoredCustomers[k],
                                R_score |-> sc[k][1],
                                F_score |-> sc[k][2],
                                M_score |-> sc[k][3]]]] :
        n \in DOMAIN ScoredCustomers,
        sc \in [DOMAIN ScoredCustomers -> ScoreLabels \X ScoreLabels \X ScoreLabels]}

InitSegments ==
    /\ pc = "api"
    /\ sales_file = NoFile /\ suppliers_file = NoFile /\ rentals_file = NoFile
    /\ sales_raw = EmptyFrame /\ suppliers_raw = EmptyFrame /\ rentals_raw = EmptyFrame
    /\ warnings = {}
    /\ year_sel = {} /\ cat_sel = {}
    /\ shown = NothingShown
    /\ \E frame \in ScoredFrames : ret = Call("qcut", {}, Return(frame))

\* The segment column and the segment counts of a scored rfm frame.
AssignSegments ==
    /\ pc = "api"
    /\ ret.fn = "qcut"
    /\ LET rfm == WithSegments(ret.value.rows)
       IN  ret' = Call("segment_row", {},
                       Return([rfm |-> [cols |-> ret.value.cols \cup {"segment"}, rows |-> rfm],
                               seg_counts |-> [cols |-> {"segment", "customers"},
                                               rows |-> SetToSeq(value_counts(rfm))]]))
    /\ UNCHANGED <<pc, sales_file, suppliers_file, rentals_file, sales_raw, suppliers_raw,
                   rentals_raw, warnings, year_sel, cat_sel, shown>>

NextSegments == AssignSegments

SpecSegments == InitSegments /\ [][NextSegments]_vars

----------------------------------------------------------------------------
(* Claims about the segments *)

SegmentsAssigned == ret.fn = "segment_row" /\ ~ret.raised

\* No rule written in segment_row matches the pair.
NoExplicitRule(r, f) ==
    /\ ~(r >= 4 /\ f >= 4) /\ ~(r >= 4 /\ f <= 3) /\ ~(r = 3 /\ f >= 4)
    /\ ~(r <= 2 /\ f >= 4) /\ ~(r <= 2 /\ f <= 2) /\ ~(r = 5 /\ f = 1)

\* C12: every customer with scores in 1..5 gets exactly one segment and is
\* counted once; the segment is "Champions" exactly when R >= 4 and F >= 4,
\* "Hibernating" exactly when R <= 2 and F <= 2, "Promising" when no explicit
\* rule matches; customers with equal (R, F) get equal segments whatever
\* their M score.
C12_SegmentDeterminedByRF ==
    SegmentsAssigned =>
        LET rows == ret.value.rfm.rows
            counts == ret.value.seg_counts.rows
        IN  /\ \A k \in DOMAIN rows :
                   LET r == rows[k].R_score
                       f == rows[k].F_score
                       seg == rows[k].segment
                   IN  /\ seg \in {"Champions", "Potential Loyalists", "Loyal", "At-risk",
                                   "Hibernating", "New", "Promising"}
                       /\ (seg = "Champions") <=> (r >= 4 /\ f >= 4)
                       /\ (seg = "Hibernating") <=> (r <= 2 /\ f <= 2)
                       /\ NoExplicitRule(r, f) => seg = "Promising"
                       /\ Cardinality({c \in DOMAIN counts : counts[c].segment = seg}) = 1
            /\ \A j, k \in DOMAIN rows :
                   (rows[j].R_score = rows[k].R_score /\ rows[j].F_score = rows[k].F_score)
                       => rows[j].segment = rows[k].segment
            /\ SumOver(DOMAIN counts, [c \in DOMAIN counts |-> counts[c].customers]) = Len(rows)

\* Two customers with scores R = 2 and F = 3 and different M scores, both
\* in the residual segment.
C12_Witness ==
    /\ SegmentsAssigned
    /\ \E j, k \in DOMAIN ret.value.rfm.rows :
           LET a == ret.value.rfm.rows[j]
               b == ret.value.rfm.rows[k]
           IN  /\ a.R_score = 2 /\ a.F_score = 3 /\ b.R_score = 2 /\ b.F_score = 3
               /\ a.M_score = 1 /\ b.M_score = 5
               /\ a.segment = "Promising" /\ b.segment = "Promising"

\* C13: no customer is assigned the segment "New": a customer with R = 5 and
\* F = 1 is a "Potential Loyalist", and every segment assigned is one of
\* Champions, Potential Loyalists, Loyal, At-risk, Hibernating and Promising.
C13_NewNeverAssigned ==
    SegmentsAssigned =>
        LET rows == ret.value.rfm.rows
            counts == ret.value.seg_counts.rows
        IN  /\ \A k \in DOMAIN rows :
                   /\ rows[k].segment # "New"
                   /\ rows[k].segment \in {"Champions", "Potential Loyalists", "Loyal",
                                           "At-risk", "Hibernating", "Promising"}
                   /\ (rows[k].R_score = 5 /\ rows[k].F_score = 1)
                          => rows[k].segment = "Potential Loyalists"
            /\ \A c \in DOMAIN counts : counts[c].segment # "New"

\* A customer with R = 5 and F = 1 has been assigned a segment.
C13_Witness ==
    /\ SegmentsAssigned
    /\ \E k \in DOMAIN ret.value.rfm.rows :
           /\ ret.value.rfm.rows[k].R_score = 5
           /\ ret.value.rfm.rows[k].F_score = 1
           /\ ret.value.rfm.rows[k].segment = "Potential Loyalists"

----------------------------------------------------------------------------
(* Claims about empty and unparseable input *)

\* C7: called with a table of zero rows, monthly_sales_with_forecast returns
\* an empty actual series, supplier_dependence a share of 0 and
\* rentals_utilization_monthly an empty result; rfm_segmentation on a table
\* without customer_id returns empty results; none raises.
C7_NoRaiseOnEmptyInput ==
    /\ (ret.fn = "monthly_sales_with_forecast" /\ Len(sales_raw.rows) = 0)
           => (~ret.raised /\ ret.value.actual.rows = <<>>)
    /\ (ret.fn = "supplier_dependence" /\ Len(suppliers_raw.rows) = 0)
           => (~ret.raised /\ PctIs(ret.value.pct, 0))
    /\ (ret.fn = "rentals_utilization_monthly" /\ Len(rentals_raw.rows) = 0)
           => (~ret.raised /\ IsEmpty(ret.value))
    /\ (ret.fn = "rfm_segmentation" /\ "customer_id" \notin sales_raw.cols)
           => (~ret.raised /\ IsEmpty(ret.value.rfm) /\ IsEmpty(ret.value.seg_counts))

\* The rows of a sheet whose cell in column col is a number.
NumericRows(file, col) == {i \in DOMAIN file.rows : file.rows[i][col].kind = "num"}

\* C8: the loaders return no record for a row whose amount is not a number:
\* load_sales returns no record with an unparseable revenue, and load_suppliers
\* returns as many records as the sheet has rows with a numeric amount.
C8_UnparseableAmountExcluded ==
    /\ \A i \in DOMAIN sales_raw.rows : sales_raw.rows[i].revenue.ok
    /\ (suppliers_file.readable /\ "Amount" \in suppliers_file.cols)
           => Len(suppliers_raw.rows) = Cardinality(NumericRows(suppliers_file, "Amount"))

----------------------------------------------------------------------------
(* The page: what each card displays *)

\* A card: the widget drawn, its content, and the aggregates invoked for it.
Card(kind, value, calls) == [kind |-> kind, value |-> value, calls |-> calls]

\* The placeholder of a card whose dataset is not loaded.
Placeholder(text) == Card("placeholder", text, {})

\* What a card shows when an aggregate it invokes raises.
Exception(what, calls) == Card("exception", what, calls)

\* a / b as exact ratios with positive denominators: a < b.
RatioLess(a, b) == a.num * b.den < b.num * a.den

\* KPI 1: total sales of 2024 against 2023.
Kpi1Card(sales_df, cats) ==
    IF IsEmpty(sales_df) THEN Placeholder("load sales")
    ELSE LET base == CategoryFilter(sales_df.rows, cats)
             of(y) == SelectRows(base, {i \in DOMAIN base : base[i].date.y = y})
             total(y) == SumOf([i \in DOMAIN of(y) |-> of(y)[i].revenue])
             growth == IF total(2023) # 0
                       THEN [num |-> (total(2024) - total(2023)) * 100, den |-> total(2023)]
                       ELSE [num |-> 0, den |-> 1]
         IN  Card("metric", [total_2024 |-> total(2024), growth |-> growth], {})

\* KPI 2: the month of the largest forecast.
Kpi2Card(sales_df, cats) ==
    IF IsEmpty(sales_df) THEN Placeholder("load sales")
    ELSE LET r == monthly_sales_with_forecast(sales_df, cats)
             calls == {"monthly_sales_with_forecast"}
         IN  IF r.raised THEN Exception(r.value, calls)
             ELSE IF IsEmpty(r.value.future) THEN Card("metric", "no forecast", calls)
             ELSE LET rows == r.value.future.rows
                      best == CHOOSE k \in DOMAIN rows :
                                  /\ \A j \in DOMAIN rows : ~RatioLess(rows[k].revenue, rows[j].revenue)
                                  /\ \A j \in 1..(k - 1) : RatioLess(rows[j].revenue, rows[k].revenue)
                  IN  Card("metric", [month |-> rows[best].month, revenue |-> rows[best].revenue],
                           calls)

\* KPI 3 without its `if not suppliers_raw.empty` test.
Kpi3CardUnguarded(sup_df, years) ==
    LET r == supplier_dependence(sup_df, years)
    IN  IF r.raised THEN Exception(r.value, {"supplier_dependence"})
        ELSE Card("metric", r.value.pct, {"supplier_dependence"})

\* KPI 3: the share of the two largest suppliers. With no year selected the
\* years present in the suppliers table are passed as the filter.
Kpi3Card(sup_df, years) ==
    IF IsEmpty(sup_df) THEN Placeholder("load suppliers")
    ELSE LET present == {sup_df.rows[i].year.v :
                            i \in {j \in DOMAIN sup_df.rows : sup_df.rows[j].year.ok}}
             years_for_dep == IF years # {} THEN years ELSE present
             r == supplier_dependence(sup_df, years_for_dep)
             calls == {"supplier_dependence"}
         IN  IF r.raised THEN Exception(r.value, calls)
             ELSE Card("metric", r.value.pct, calls)

\* The hours of a Timestamp since 0001-01-01.
Hours(t) == Ordinal(t) * 24 + t.h

\* KPI 4: the customers with a purchase in the last 180 days.
Kpi4Card(sales_df) ==
    IF IsEmpty(sales_df) THEN Placeholder("load sales")
    ELSE LET rows == sales_df.rows
             latest == MaxStamp({rows[i].date : i \in DOMAIN rows})
             recent == {i \in DOMAIN rows : Hours(rows[i].date) >= Hours(latest) - 180 * 24}
             n_active == IF "customer_id" \in sales_df.cols
                         THEN Cardinality({rows[i].customer_id : i \in recent})
                         ELSE 0
         IN  Card("metric", n_active, {})

\* Sales & Forecast: the actual series, with the forecast when it is switched
\* on and not empty.
SalesForecastCard(sales_df, cats, show_fc) ==
    IF IsEmpty(sales_df) THEN Placeholder("Load the Sales file to view this chart.")
    ELSE LET r == monthly_sales_with_forecast(sales_df, cats)
             calls == {"monthly_sales_with_forecast"}
         IN  IF r.raised THEN Exception(r.value, calls)
             ELSE Card("chart",
                       r.value.actual.rows
                       \o (IF show_fc /\ ~IsEmpty(r.value.future) THEN r.value.future.rows
                           ELSE <<>>),
                       calls)

\* Top suppliers: the orders of the five largest suppliers of the selected years.
TopSuppliersCard(sup_df, years) ==
    IF IsEmpty(sup_df) THEN Placeholder("Load the Suppliers file to view top suppliers.")
    ELSE LET all == sup_df.rows
             filt == IF years # {}
                     THEN SelectRows(all, {i \in DOMAIN all :
                                              all[i].year.ok /\ all[i].year.v \in years})
                     ELSE all
             names == {filt[i].supplier : i \in DOMAIN filt}
             of(n) == SelectRows(filt, {i \in DOMAIN filt : filt[i].supplier = n})
             agg == SortDescending(
                        {[supplier |-> n,
                          order_amount |-> SumOf([i \in DOMAIN of(n) |-> of(n)[i].order_amount])] :
                         n \in names})
             top5_sup == {HeadRows(agg, 5)[k].supplier : k \in DOMAIN HeadRows(agg, 5)}
         IN  Card("chart", SelectRows(filt, {i \in DOMAIN filt : filt[i].supplier \in top5_sup}), {})

\* Mascot rentals: the utilization heatmap.
RentalsCard(rentals_df) ==
    IF IsEmpty(rentals_df) THEN Placeholder("Load the Rentals file to view utilization heatmap.")
    ELSE LET util == rentals_utilization_monthly(rentals_df)
             calls == {"rentals_utilization_monthly"}
         IN  IF IsEmpty(util) THEN Card("info", "No valid rental intervals found.", calls)
             ELSE Card("chart", util.rows, calls)

\* Customer loyalty: the segment counts. outcome is what rfm_segmentation did.
LoyaltyCard(sales_df, outcome) ==
    IF IsEmpty(sales_df) THEN Placeholder("Load the Sales file to compute RFM.")
    ELSE LET calls == {"rfm_segmentation"}
         IN  IF outcome.raised THEN Exception(outcome.value, calls)
             ELSE IF IsEmpty(outcome.value.seg_counts)
             THEN Card("info", "RFM could not be computed (missing customer IDs).", calls)
             ELSE Card("chart", outcome.value.seg_counts.rows, calls)

\* Exports: one download per loaded dataset, else a dash.
ExportSalesCard(sales_df) ==
    IF IsEmpty(sales_df) THEN Placeholder("-")
    ELSE Card("download", MonthlySalesExport(sales_df).rows, {})

ExportSuppliersCard(sup_df) ==
    IF IsEmpty(sup_df) THEN Placeholder("-") ELSE Card("download", sup_df.rows, {})

ExportRentalsCard(rentals_df) ==
    IF IsEmpty(rentals_df) THEN Placeholder("-")
    ELSE LET util == rentals_utilization_monthly(rentals_df)
             calls == {"rentals_utilization_monthly"}
         IN  IF IsEmpty(util) THEN Card("dash", "-", calls)
             ELSE Card("download", util.rows, calls)

----------------------------------------------------------------------------
(* The page script *)

\* A sheet's rows restricted to the columns the sheet has.
Project(cols, rows) == [i \in DOMAIN rows |-> [c \in cols |-> rows[i][c]]]

PageSalesRows ==
    <<[Date |-> DateCell(Stamp(2023, 1, 15, 0)), ORDER_DATE |-> DateCell(Stamp(2023, 1, 15, 0)),
       Category |-> TextCell("Toys"), Customer_ID |-> TextCell("c1"),
       Total_Amount |-> NumCell(100), Quantity |-> NumCell(2), Unit_Price |-> NumCell(50)],
      [Date |-> DateCell(Stamp(2024, 1, 20, 9)), ORDER_DATE |-> DateCell(Stamp(2024, 1, 20, 9)),
       Category |-> TextCell("Halloween"), Customer_ID |-> TextCell("c2"),
       Total_Amount |-> TextCell("n/a"), Quantity |-> NumCell(3), Unit_Price |-> Blank]>>

PageSalesFiles ==
    {NoFile, Corrupt, Sheet(SalesColumns, <<>>)}
    \cup {Sheet(cols, Project(cols, PageSalesRows)) :
             cols \in {SalesColumns,
                       {"Category", "Customer_ID", "Total_Amount"},
                       {"Date", "Quantity", "Unit_Price"},
                       {"ORDER_DATE", "Category"}}}

PageSupplierRows ==
    <<[Shop |-> TextCell("A"), Amount |-> NumCell(600), Year |-> NumCell(2024),
       Category |-> TextCell("Toys"), Date |-> DateCell(Stamp(2024, 5, 2, 0))],
      [Shop |-> TextCell("B"), Amount |-> NumCell(300), Year |-> NumCell(2024),
       Category |-> TextCell("Toys"), Date |-> DateCell(Stamp(2024, 6, 1, 0))],
      [Shop |-> TextCell("C"), Amount |-> TextCell("n/a"), Year |-> NumCell(2023),
       Category |-> Blank, Date |-> TextCell("soon")],
      [Shop |-> TextCell("C"), Amount |-> NumCell(100), Year |-> Blank,
       Category |-> TextCell("Halloween"), Date |-> TextCell("soon")]>>

\* The supplier column is named "Supplier" in these sheets.
PageSupplierFiles ==
    {NoFile, Corrupt}
    \cup {Sheet(cols, [i \in DOMAIN PageSupplierRows |->
                          [c \in cols |-> IF c = "Supplier" THEN PageSupplierRows[i].Shop
                                          ELSE PageSupplierRows[i][c]]]) :
             cols \in {{"Supplier", "Amount", "Year", "Category"},
                       {"Amount", "Year", "Category"},
                       {"Supplier", "Year"},
                       {"Supplier", "Amount", "Date"},
                       {"Supplier", "Amount"}}}

PageRentalRows ==
    <<[Mascot |-> TextCell("Leo"), Start_Date |-> DateCell(Stamp(2024, 3, 30, 0)),
       End_Date |-> DateCell(Stamp(2024, 4, 2, 0))],
      [Mascot |-> TextCell("Mia"), Start_Date |-> DateCell(Stamp(2024, 4, 2, 0)),
       End_Date |-> DateCell(Stamp(2024, 3, 30, 0))]>>

PageRentalFiles ==
    {NoFile, Sheet({"Mascot", "Start_Date", "End_Date"}, <<>>)}
    \cup {Sheet(cols, Project(cols, SubSeq(PageRentalRows, n, 2))) :
             n \in 1..2,
             cols \in {{"Mascot", "Start_Date", "End_Date"},
                       {"Start_Date", "End_Date"},
                       {"Mascot", "End_Date"},
                       {"Mascot", "Start_Date"}}}

Init ==
    /\ pc = "load_sales"
    /\ sales_file \in PageSalesFiles
    /\ suppliers_file \in PageSupplierFiles
    /\ rentals_file \in PageRentalFiles
    /\ sales_raw = EmptyFrame /\ suppliers_raw = EmptyFrame /\ rentals_raw = EmptyFrame
    /\ warnings = {}
    /\ year_sel = {} /\ cat_sel = {}
    /\ shown = NothingShown
    /\ ret = NoCall

\* sales_raw = load_sales(sales_path) if os.path.exists(sales_path) else pd.DataFrame()
LoadSales ==
    /\ pc = "load_sales"
    /\ sales_raw' = (IF sales_file.exists THEN load_sales(sales_file).df ELSE EmptyFrame)
    /\ warnings' = warnings \cup (IF sales_file.exists THEN load_sales(sales_file).warn ELSE {})
    /\ pc' = "load_suppliers"
    /\ UNCHANGED <<sales_file, suppliers_file, rentals_file, suppliers_raw, rentals_raw,
                   year_sel, cat_sel, shown, ret>>

LoadSuppliers ==
    /\ pc = "load_suppliers"
    /\ suppliers_raw' = (IF suppliers_file.exists THEN load_suppliers(suppliers_file).df
                         ELSE EmptyFrame)
    /\ warnings' = warnings \cup (IF suppliers_file.exists
                                  THEN load_suppliers(suppliers_file).warn ELSE {})
    /\ pc' = "load_rentals"
    /\ UNCHANGED <<sales_file, suppliers_file, rentals_file, sales_raw, rentals_raw,
                   year_sel, cat_sel, shown, ret>>

LoadRentals ==
    /\ pc = "load_rentals"
    /\ rentals_raw' = (IF rentals_file.exists THEN load_rentals(rentals_file).df
                       ELSE EmptyFrame)
    /\ warnings' = warnings \cup (IF rentals_file.exists
                                  THEN load_rentals(rentals_file).warn ELSE {})
    /\ pc' = "filters"
    /\ UNCHANGED <<sales_file, suppliers_file, rentals_file, sales_raw, suppliers_raw,
                   year_sel, cat_sel, shown, ret>>

\* The global filters: any selection among the years and categories of the sales.
SelectFilters ==
    /\ pc = "filters"
    /\ LET years_available == IF IsEmpty(sales_raw) THEN {}
                              ELSE {sales_raw.rows[i].date.y : i \in DOMAIN sales_raw.rows}
           cats_available == IF IsEmpty(sales_raw) THEN {}
                             ELSE {sales_raw.rows[i].category : i \in DOMAIN sales_raw.rows}
       IN  /\ year_sel' \in SUBSET years_available
           /\ cat_sel' \in SUBSET cats_available
    /\ pc' = "kpis"
    /\ UNCHANGED <<sales_file, suppliers_file, rentals_file, sales_raw, suppliers_raw,
                   rentals_raw, warnings, shown, ret>>

\* Row 1: the four KPI cards.
RenderKpis ==
    /\ pc = "kpis"
    /\ shown' = [card \in {"kpi1", "kpi2", "kpi3", "kpi4"} |->
                    CASE card = "kpi1" -> Kpi1Card(sales_raw, cat_sel)
                      [] card = "kpi2" -> Kpi2Card(sales_raw, cat_sel)
                      [] card = "kpi3" -> Kpi3Card(suppliers_raw, year_sel)
                      [] OTHER -> Kpi4Card(sales_raw)]
    /\ pc' = "sales_forecast"
    /\ UNCHANGED <<sales_file, suppliers_file, rentals_file, sales_raw, suppliers_raw,
                   rentals_raw, warnings, year_sel, cat_sel, ret>>

\* Row 2: Sales & Forecast.
RenderSalesForecast ==
    /\ pc = "sales_forecast"
    /\ \E show_fc \in BOOLEAN :
           shown' = shown @@ ("sales_forecast" :> SalesForecastCard(sales_raw, cat_sel, show_fc))
    /\ pc' = "suppliers"
    /\ UNCHANGED <<sales_file, suppliers_file, rentals_file, sales_raw, suppliers_raw,
                   rentals_raw, warnings, year_sel, cat_sel, ret>>

\* Row 3: Top Suppliers.
RenderTopSuppliers ==
    /\ pc = "suppliers"
    /\ shown' = shown @@ ("top_suppliers" :> TopSuppliersCard(suppliers_raw, year_sel))
    /\ pc' = "rentals_loyalty"
    /\ UNCHANGED <<sales_file, suppliers_file, rentals_file, sales_raw, suppliers_raw,
                   rentals_raw, warnings, year_sel, cat_sel, ret>>

\* Row 4: the rentals heatmap and the loyalty snapshot.
RenderRentalsLoyalty ==
    /\ pc = "rentals_loyalty"
    /\ \E outcome \in (IF IsEmpty(sales_raw) THEN {Return("not called")}
                       ELSE rfm_segmentation(sales_raw)) :
           shown' = shown @@ ("rentals" :> RentalsCard(rentals_raw))
                          @@ ("loyalty" :> LoyaltyCard(sales_raw, outcome))
    /\ pc' = "exports"
    /\ UNCHANGED <<sales_file, suppliers_file, rentals_file, sales_raw, suppliers_raw,
                   rentals_raw, warnings, year_sel, cat_sel, ret>>

\* Footer: the downloads.
RenderExports ==
    /\ pc = "exports"
    /\ shown' = shown @@ ("export_sales" :> ExportSalesCard(sales_raw))
                      @@ ("export_suppliers" :> ExportSuppliersCard(suppliers_raw))
                      @@ ("export_rentals" :> ExportRentalsCard(rentals_raw))
    /\ pc' = "done"
    /\ UNCHANGED <<sales_file, suppliers_file, rentals_file, sales_raw, suppliers_raw,
                   rentals_raw, warnings, year_sel, cat_sel, ret>>

\* A change of a widget runs the script again; the loaders' results are cached.
Rerun ==
    /\ pc = "done"
    /\ pc' = "filters"
    /\ shown' = NothingShown
    /\ UNCHANGED <<sales_file, suppliers_file, rentals_file, sales_raw, suppliers_raw,
                   rentals_raw, warnings, year_sel, cat_sel, ret>>

Next ==
    \/ LoadSales \/ LoadSuppliers \/ LoadRentals
    \/ SelectFilters
    \/ RenderKpis \/ RenderSalesForecast \/ RenderTopSuppliers \/ RenderRentalsLoyalty
    \/ RenderExports
    \/ Rerun

Spec == Init /\ [][Next]_vars

----------------------------------------------------------------------------
(* Claims about the page *)

\* The sheet has rows, and none of its columns goes by one of the names.
Unresolved(file, names) ==
    /\ file.readable /\ file.cols # {} /\ file.rows # <<>>
    /\ \A c \in file.cols : LowerName(c) \notin names

SalesUnresolved == Unresolved(sales_file, {"date", "order_date", "order date"})

SuppliersUnresolved ==
    \/ Unresolved(suppliers_file, {"shop", "supplier"})
    \/ Unresolved(suppliers_file, {"amount", "total_amount", "order_amount", "total"})

RentalsUnresolved ==
    \/ Unresolved(rentals_file, {"mascot", "mascot_name", "name"})
    \/ Unresolved(rentals_file, {"start_date", "start", "from"})
    \/ Unresolved(rentals_file, {"end_date", "end", "to"})

SalesCards == {"kpi1", "kpi2", "kpi4", "sales_forecast", "loyalty", "export_sales"}
SupplierCards == {"kpi3", "top_suppliers", "export_suppliers"}
RentalCards == {"rentals", "export_rentals"}

Unavailable(cards) ==
    \A card \in cards \cap DOMAIN shown :
        shown[card].kind = "placeholder" /\ shown[card].calls = {}

ActualRevenue(rows) ==
    LET actual == {k \in DOMAIN rows : rows[k].series = "Actual"}
    IN  SumOver(actual, [k \in actual |-> rows[k].revenue])

\* The share of the two largest suppliers over every supplier-order record.
ShareOfAllOrders == supplier_dependence(suppliers_raw, {}).value.pct

\* C10: with no category selected the monthly series aggregates every sales
\* record; with no year selected the supplier share is computed over every
\* supplier-order record, in a direct call and in the Supplier Dependence KPI.
C10_EmptyFilterMeansNoFilter ==
    /\ (/\ "sales_forecast" \in DOMAIN shown
        /\ cat_sel = {}
        /\ shown["sales_forecast"].kind = "chart")
           => ActualRevenue(shown["sales_forecast"].value) = RevenueOver(DOMAIN sales_raw.rows)
    /\ (MonthlyCalled /\ ret.arg = {})
           => ActualRevenue(ret.value.actual.rows) = RevenueOver(DOMAIN sales_raw.rows)
    /\ (SuppliersCalled /\ ret.arg = {})
           => LET agg == ret.value.agg
              IN  SumOver(DOMAIN agg, [k \in DOMAIN agg |-> agg[k].order_amount])
                      = SumOver(DOMAIN suppliers_raw.rows,
                                [i \in DOMAIN suppliers_raw.rows |->
                                    suppliers_raw.rows[i].order_amount.v])
    /\ (/\ "kpi3" \in DOMAIN shown
        /\ year_sel = {}
        /\ shown["kpi3"].kind = "metric")
           => shown["kpi3"].value.num * ShareOfAllOrders.den
                  = ShareOfAllOrders.num * shown["kpi3"].value.den

====
